---------------------------- MODULE Spec2Model ----------------------------
(***************************************************************************)
(* A model of generate_graphs.py: create_graphs() reads one table, infers  *)
(* the time, category and value columns, coerces the time column and calls *)
(* create_timeframe_graphs() for "All Time" and for "Last 1 Year".         *)
(*                                                                         *)
(* Text (column names, category names, file names) is a sequence of        *)
(* one-character strings, so that substring search, character replacement *)
(* and concatenation are computed and not assumed.                         *)
(*                                                                         *)
(* pandas is modelled by what it does to the data (filter, unique, ==,     *)
(* min, max, sort_values, to_datetime); matplotlib is modelled as a        *)
(* recorder of the calls made to it (plot, set_xlim, set_visible, savefig).*)
(* The category column holds text or missing cells.                        *)
(***************************************************************************)
EXTENDS Integers, Sequences, FiniteSets, TLC

VARIABLES
    pc,             \* position in create_graphs
    columns,        \* df.columns
    date_col, type_col, value_col,   \* the inferred roles (None when unset)
    df,             \* the table: a sequence of rows, each a tuple aligned with columns
    is_datetime,    \* pd.api.types.is_datetime64_any_dtype(df[date_col])
    unique_types,   \* df[type_col].unique()
    tf,             \* output_suffix of the last create_timeframe_graphs call
    calls,          \* the output_suffix of every create_timeframe_graphs call, in order
    start_date,     \* its start_date argument (NoBound when None)
    end_date,       \* its end_date argument (NoBound when None)
    filtered,       \* filtered_df, as the indices of df's rows it holds, in order
    types,          \* the local unique_types after line 34 (types_with_data)
    xrange,         \* <<min_date, max_date>> of lines 36-43
    grid,           \* [rows, cols, naxes, hidden]: the subplot layout
    panels,         \* per timeframe: the panels drawn on the composite
    singles,        \* per timeframe: the standalone figures drawn and saved
    saved,          \* every plt.savefig call of the run, in order: [tf, file]
    name, safe      \* a category name and its safe_filename (sanitization runs)

vars == <<pc, columns, date_col, type_col, value_col, df, is_datetime,
          unique_types, tf, calls, start_date, end_date, filtered, types, xrange, grid,
          panels, singles, saved, name, safe>>

-----------------------------------------------------------------------------
(* Bounds of the model *)

MaxRows == 3
MaxCols == 3
MaxNameLen == 3

-----------------------------------------------------------------------------
(* Text *)

None == << >>

RECURSIVE Concat(_)
Concat(ss) == IF ss = << >> THEN << >> ELSE Head(ss) \o Concat(Tail(ss))

\* str.lower(), character by character
LowerChar(ch) ==
    CASE ch = "A" -> "a" [] ch = "D" -> "d" [] ch = "E" -> "e"
      [] ch = "I" -> "i" [] ch = "K" -> "k" [] ch = "M" -> "m"
      [] ch = "N" -> "n" [] ch = "P" -> "p" [] ch = "T" -> "t"
      [] ch = "U" -> "u" [] ch = "V" -> "v" [] ch = "Y" -> "y"
      [] OTHER -> ch

Lower(s) == [k \in 1..Len(s) |-> LowerChar(s[k])]

\* Python's `kw in s` for strings
Contains(s, kw) ==
    \E k \in 0..(Len(s) - Len(kw)) : SubSeq(s, k + 1, k + Len(kw)) = kw

\* any(keyword in low for keyword in keywords)
AnyKeywordIn(low, keywords) == \E kw \in keywords : Contains(low, kw)

\* any(keyword in col.lower() for keyword in keywords)
AnyKeyword(col, keywords) == AnyKeywordIn(Lower(col), keywords)

DateKeywords == { <<"d","a","t","e">>, <<"t","i","m","e">>,
                  <<"t","i","m","e","s","t","a","m","p">> }
TypeKeywords == { <<"t","y","p","e">>, <<"c","a","t","e","g","o","r","y">>,
                  <<"k","i","n","d">> }
ValueKeywords == { <<"v","a","l","u","e">>, <<"a","m","o","u","n","t">>,
                   <<"m","e","a","s","u","r","e","m","e","n","t">>,
                   <<"d","a","t","a">> }

\* for col in cols: if any(...): role = col; break        (role stays None otherwise)
RECURSIVE FirstMatch(_, _)
FirstMatch(cols, keywords) ==
    IF cols = << >> THEN None
    ELSE IF AnyKeyword(Head(cols), keywords) THEN Head(cols)
    ELSE FirstMatch(Tail(cols), keywords)

\* Python truthiness of a role: None (and the empty string) are falsy
Truthy(col) == col # None /\ Len(col) > 0

\* lines 175-176
DateFallback(cols, found) ==
    IF ~Truthy(found) /\ Len(cols) >= 1 THEN cols[1] ELSE found

TypeFallbackAlwaysLast(cols, found) ==
    IF ~Truthy(found) /\ Len(cols) >= 2 THEN cols[Len(cols)] ELSE found

\* lines 177-178
TypeFallback(cols, found) ==
    IF ~Truthy(found) /\ Len(cols) >= 2
    THEN (IF Len(cols) > 2 THEN cols[2] ELSE cols[Len(cols)])
    ELSE found

\* lines 179-180
ValueFallback(cols, found) ==
    IF ~Truthy(found) /\ Len(cols) >= 2
    THEN (IF Len(cols) > 2 THEN cols[Len(cols)] ELSE cols[2])
    ELSE found

-----------------------------------------------------------------------------
(* Cells of the table *)

\* A cell of the time column as read from the file:
\*   DateCell(yyyymmdd)  the text "yyyy-mm-dd", which pd.to_datetime parses
\*   TextCell            a text pd.to_datetime cannot parse
\*   NaCell              a missing cell (NaN)
\* and after a successful coercion: Ts(day ordinal) or NaT.
DateCell(n) == [k |-> "date", n |-> n]
TextCell == [k |-> "text", n |-> 0]
NaCell == [k |-> "na", n |-> 0]
Ts(n) == [k |-> "ts", n |-> n]
NaT == [k |-> "nat", n |-> 0]

IsMissing(cell) == cell.k \in {"na", "nat"}

\* A missing cell of the category column (NaN); every other category is text.
NaN == <<"NaN">>

\* timedelta(days=365)
YearDays == 365

\* The proleptic Gregorian calendar of pandas' timestamps
IsLeap(y) == (y % 4 = 0 /\ y % 100 # 0) \/ y % 400 = 0

DaysInMonth(y, m) ==
    IF m = 2 THEN (IF IsLeap(y) THEN 29 ELSE 28)
    ELSE IF m \in {4, 6, 9, 11} THEN 30 ELSE 31

DaysBeforeYear(y) ==
    365 * (y - 1) + ((y - 1) \div 4) - ((y - 1) \div 100) + ((y - 1) \div 400)

RECURSIVE DaysBeforeMonth(_, _)
DaysBeforeMonth(y, m) ==
    IF m = 1 THEN 0 ELSE DaysBeforeMonth(y, m - 1) + DaysInMonth(y, m - 1)

ToOrdinal(y, m, d) == DaysBeforeYear(y) + DaysBeforeMonth(y, m) + d

\* the day pd.to_datetime gives the text "yyyy-mm-dd" (n = yyyymmdd)
ParseDate(n) == ToOrdinal(n \div 10000, (n \div 100) % 100, n % 100)

\* pd.to_datetime on one cell of a column it accepts
CoerceCell(cell) == IF cell.k = "date" THEN Ts(ParseDate(cell.n)) ELSE NaT

\* pd.to_datetime raises on a text it cannot parse
Coercible(cell) == cell.k \in {"date", "na"}

\* The order of the time column's values: timestamps by day; in an uncoerced
\* (text) column "yyyy-mm-dd" texts compare as their digits and sort before
\* the unparseable text, which starts with a letter.
Key(cell) == IF cell.k = "text" THEN 99999999 ELSE cell.n

\* Series >= scalar: False wherever either side is missing
GreaterEq(cell, bound) == ~IsMissing(cell) /\ ~IsMissing(bound) /\ Key(cell) >= Key(bound)

LessEq(cell, bound) == ~IsMissing(cell) /\ ~IsMissing(bound) /\ Key(cell) =< Key(bound)

\* Series == scalar on the category column: NaN equals nothing
CatEq(a, b) == a # NaN /\ b # NaN /\ a = b

-----------------------------------------------------------------------------
(* The table *)

\* df[col] at row r
At(r, col) == df[r][col]

Range(s) == {s[k] : k \in 1..Len(s)}

\* Series.unique(): the distinct values in order of first appearance
RECURSIVE Unique(_)
Unique(s) ==
    IF s = << >> THEN << >>
    ELSE LET init == Unique(SubSeq(s, 1, Len(s) - 1))
             last == s[Len(s)]
         IN  IF last \in Range(init) THEN init ELSE Append(init, last)

Column(col) == [r \in 1..Len(df) |-> At(r, col)]

RowIndices == [r \in 1..Len(df) |-> r]

-----------------------------------------------------------------------------
(* create_timeframe_graphs: its computations *)

\* start_date=None / end_date=None
NoBound == [k |-> "none", n |-> 0]

NoRange == <<NoBound, NoBound>>

NoGrid == [rows |-> 0, cols |-> 0, naxes |-> 0, hidden |-> {}]

Timeframes == {"absolute", "1year"}

\* output_suffix as text
Suffix(t) == IF t = "absolute" THEN <<"a","b","s","o","l","u","t","e">>
             ELSE <<"1","y","e","a","r">>

FilteredExclusive(start, end) ==
    LET Keep(r) == /\ start = NoBound \/ (GreaterEq(At(r, date_col), start)
                                           /\ At(r, date_col) # start)
                   /\ end = NoBound \/ LessEq(At(r, date_col), end)
    IN  SelectSeq(RowIndices, Keep)

\* lines 11-15: the rows of df kept by the window, in df's order
Filtered(start, end) ==
    LET Keep(r) == /\ start = NoBound \/ GreaterEq(At(r, date_col), start)
                   /\ end = NoBound \/ LessEq(At(r, date_col), end)
    IN  SelectSeq(RowIndices, Keep)

\* filtered_df[filtered_df[type_col] == data_type], as row indices in order
TypeData(filt, data_type) ==
    LET Keep(r) == CatEq(At(r, type_col), data_type)
    IN  SelectSeq(filt, Keep)

TypesWithDataAll(ut, filt) == ut

\* lines 22-28
TypesWithData(ut, filt) ==
    LET HasData(t) == TypeData(filt, t) # << >>
    IN  SelectSeq(ut, HasData)

Present(filt) == {At(r, date_col) : r \in Range(filt)} \ {NaCell, NaT}

MinDateOfTable(filt) ==
    LET all == {At(r, date_col) : r \in 1..Len(df)} \ {NaCell, NaT}
    IN  IF all = {} THEN NaT
        ELSE CHOOSE c \in all : \A d \in all : Key(c) =< Key(d)

\* filtered_df[date_col].min(): missing cells are skipped
MinOf(cells) ==
    IF cells = {} THEN NaT ELSE CHOOSE c \in cells : \A d \in cells : Key(c) =< Key(d)

MinDate(filt) == MinOf(Present(filt))

\* filtered_df[date_col].max() / df[date_col].max()
MaxOf(cells) ==
    IF cells = {} THEN NaT ELSE CHOOSE c \in cells : \A d \in cells : Key(c) >= Key(d)

MaxDate(filt) == MaxOf(Present(filt))

\* min()/max() of an uncoerced column that holds texts and missing cells
\* compares a str with the float NaN: pandas before 3.0 (object dtype) raises
\* TypeError there, the pandas 3 string dtype skips the missing cell.
MinMaxMayRaise(filt) ==
    ~is_datetime /\ \E r \in Range(filt) : IsMissing(At(r, date_col))

\* max_date - timedelta(days=365)
OneYearAgo(m) == IF IsMissing(m) THEN NaT ELSE Ts(m.n - YearDays)

LayoutOneColumn(num_types) ==
    [rows |-> num_types, cols |-> 1, naxes |-> num_types, hidden |-> {}]

\* lines 46-59: cols, rows and len(axes)
Layout(num_types) ==
    LET cols == IF num_types > 1 THEN 2 ELSE 1
        rows == (num_types + cols - 1) \div cols
    IN  [rows |-> rows, cols |-> cols,
         naxes |-> IF num_types = 1 THEN 1
                   ELSE IF rows = 1 THEN cols
                   ELSE rows * cols,
         hidden |-> {}]

\* sort_values orders x before y
InOrder(x, y) == IsMissing(y) \/ (~IsMissing(x) /\ Key(x) =< Key(y))

\* rs without its k-th element
Without(rs, k) == SubSeq(rs, 1, k - 1) \o SubSeq(rs, k + 1, Len(rs))

RECURSIVE SortedUnsorted(_)
SortedUnsorted(rs) ==
    IF rs = << >> THEN { << >> }
    ELSE UNION { { <<rs[k]>> \o rest : rest \in SortedUnsorted(Without(rs, k)) } :
                   k \in 1..Len(rs) }

\* the rows of rs that may come first: no row of rs must precede them
Firsts(rs) ==
    {k \in 1..Len(rs) :
        \A j \in 1..Len(rs) : InOrder(At(rs[k], date_col), At(rs[j], date_col))}

\* type_data.sort_values(date_col): ascending, missing times last; the default
\* sort is not stable, so rows of equal time may come out in any order
RECURSIVE Sorted(_)
Sorted(rs) ==
    IF rs = << >> THEN { << >> }
    ELSE UNION { { <<rs[k]>> \o rest : rest \in Sorted(Without(rs, k)) } :
                   k \in Firsts(rs) }

\* str.replace(old, new) for a one-character old
Replace(s, old, new) == [k \in 1..Len(s) |-> IF s[k] = old THEN new ELSE s[k]]

SafeFilenameNoBackslash(data_type) ==
    Replace(Replace(data_type, " ", "_"), "/", "_")

\* line 126
SafeFilename(data_type) ==
    Replace(Replace(Replace(data_type, " ", "_"), "/", "_"), "\\", "_")

OutDir == <<"o","u","t","/">>
Png == <<".","p","n","g">>

\* line 97
CombinedFile(t) ==
    Concat(<< OutDir, <<"d","a","t","a","_","g","r","a","p","h","s","_">>,
              <<"c","o","m","b","i","n","e","d","_">>, Suffix(t), Png >>)

IndividualFileNoSuffix(safe_filename, t) ==
    Concat(<< OutDir, safe_filename, <<"_","g","r","a","p","h">>, Png >>)

\* line 127
IndividualFile(safe_filename, t) ==
    Concat(<< OutDir, safe_filename, <<"_","g","r","a","p","h","_">>, Suffix(t), Png >>)

-----------------------------------------------------------------------------
(* Inputs *)

cDate == <<"d","a","t","e">>
cCategory == <<"c","a","t","e","g","o","r","y">>
cValue == <<"v","a","l","u","e">>
cA == <<"a">>
cB == <<"b">>
cC == <<"c">>
cTime == <<"T","i","m","e">>
cDatatype == <<"d","a","t","a","t","y","p","e">>
cKind == <<"K","i","n","d">>

ColumnNames == {cDate, cCategory, cValue, cA, cB, cC, cTime, cDatatype, cKind}

\* read_csv gives distinct, non-empty column names
ColumnLists ==
    UNION { {cs \in [1..n -> ColumnNames] :
                \A a, b \in 1..n : a # b => cs[a] # cs[b]} : n \in 1..MaxCols }

\* the table of the rendering runs has the columns date, category, value
StdColumns == <<cDate, cCategory, cValue>>

TimeCells == {DateCell(20230601), DateCell(20230602), DateCell(20240601),
              NaCell, TextCell}

Categories == {<<"a"," ","b">>, <<"a","_","b">>, <<"w">>, NaN}

\* a row of the table: a cell under each column name
Rows == { (cDate :> t) @@ (cCategory :> c) @@ (cValue :> 1) :
            t \in TimeCells, c \in Categories }

Tables == UNION { [1..n -> Rows] : n \in 0..MaxRows }

NameChars == {"a", " ", "/", "\\", "_"}

Names == UNION { [1..n -> NameChars] : n \in 0..MaxNameLen }

-----------------------------------------------------------------------------
(* create_timeframe_graphs *)

\* the points one plot call draws for the rows rs: every outcome of the sort
SortedPlots(rs) ==
    { [k \in 1..Len(rs) |-> <<At(p[k], date_col), At(p[k], value_col)>>] :
        p \in Sorted(rs) }

\* lines 62-88: the panels of the composite, one per type in order, panel i on
\* axes[i]; a type without rows gets a text and no limits
RECURSIVE PanelSeqs(_, _, _, _)
PanelSeqs(ts, filt, xr, k) ==
    IF k > Len(ts) THEN { << >> }
    ELSE { << [cat |-> ts[k], data |-> d, cell |-> k - 1,
               xlim |-> IF d # << >> THEN xr ELSE NoRange] >> \o rest :
             d \in SortedPlots(TypeData(filt, ts[k])),
             rest \in PanelSeqs(ts, filt, xr, k + 1) }

\* lines 102-131: the standalone figures, one per type in order
RECURSIVE SingleSeqs(_, _, _, _, _)
SingleSeqs(ts, filt, xr, t, k) ==
    IF k > Len(ts) THEN { << >> }
    ELSE { << [cat |-> ts[k], data |-> d, xlim |-> xr,
               file |-> IndividualFile(SafeFilename(ts[k]), t)] >> \o rest :
             d \in SortedPlots(TypeData(filt, ts[k])),
             rest \in SingleSeqs(ts, filt, xr, t, k + 1) }

\* lines 90-92: for i in range(num_types, len(axes)): axes[i].set_visible(False)
Hidden(num_types, naxes) == num_types..(naxes - 1)

\* lines 36-131: the range, the layout, the composite and the standalone figures
Render(t, f, ty, xr, lay, next) ==
    /\ pc' = next
    /\ types' = ty
    /\ xrange' = xr
    /\ grid' = [lay EXCEPT !.hidden = Hidden(Len(ty), lay.naxes)]
    /\ \E ps \in PanelSeqs(ty, f, xr, 1) :
         panels' = [panels EXCEPT ![t] = ps]
    /\ \E ss \in SingleSeqs(ty, f, xr, t, 1) :
         /\ singles' = [singles EXCEPT ![t] = ss]
         /\ saved' = saved \o <<[tf |-> t, file |-> CombinedFile(t)]>>
                       \o [k \in 1..Len(ss) |-> [tf |-> t, file |-> ss[k].file]]
    /\ name' = ty[Len(ty)]
    /\ safe' = SafeFilename(ty[Len(ty)])

\* lines 17-34: the early returns, then the rendering
Body(t, f, ty, next) ==
    /\ filtered' = f
    /\ IF f = << >> \/ ty = << >>
       THEN /\ pc' = next
            /\ types' = << >>
            /\ xrange' = NoRange
            /\ grid' = NoGrid
            /\ UNCHANGED <<panels, singles, saved, name, safe>>
       ELSE \E raises \in (IF MinMaxMayRaise(f) THEN {TRUE, FALSE} ELSE {FALSE}) :
              IF raises
              THEN /\ pc' = "crashed"
                   /\ types' = ty
                   /\ xrange' = NoRange
                   /\ grid' = NoGrid
                   /\ UNCHANGED <<panels, singles, saved, name, safe>>
              ELSE Render(t, f, ty, <<MinDate(f), MaxDate(f)>>, Layout(Len(ty)), next)

Filtering(t, start, end, f, next) ==
    /\ tf' = t
    /\ calls' = Append(calls, t)
    /\ start_date' = start
    /\ end_date' = end
    /\ Body(t, f, TypesWithData(unique_types, f), next)

CreateTimeframeGraphs(t, start, end, next) ==
    Filtering(t, start, end, Filtered(start, end), next)

-----------------------------------------------------------------------------
(* create_graphs *)

InitCommon ==
    /\ date_col = None
    /\ type_col = None
    /\ value_col = None
    /\ is_datetime = FALSE
    /\ unique_types = << >>
    /\ tf = "absolute"
    /\ calls = << >>
    /\ start_date = NoBound
    /\ end_date = NoBound
    /\ filtered = << >>
    /\ types = << >>
    /\ xrange = NoRange
    /\ grid = NoGrid
    /\ panels = [t \in Timeframes |-> << >>]
    /\ singles = [t \in Timeframes |-> << >>]
    /\ saved = << >>
    /\ safe = None

\* a run of create_graphs on a table with the columns date, category, value
Init ==
    /\ pc = "infer"
    /\ columns = StdColumns
    /\ df \in Tables
    /\ name = None
    /\ InitCommon

\* lines 152-182
InferColumns ==
    /\ pc = "infer"
    /\ date_col' = DateFallback(columns, FirstMatch(columns, DateKeywords))
    /\ type_col' = TypeFallback(columns, FirstMatch(columns, TypeKeywords))
    /\ value_col' = ValueFallback(columns, FirstMatch(columns, ValueKeywords))
    /\ pc' = "coerce"
    /\ UNCHANGED <<columns, df, is_datetime, unique_types, tf, calls, start_date,
                   end_date, filtered, types, xrange, grid, panels, singles,
                   saved, name, safe>>

\* lines 184-188: try pd.to_datetime; on failure the column is left as it is
CoerceTime ==
    /\ pc = "coerce"
    /\ IF \A r \in 1..Len(df) : Coercible(At(r, date_col))
       THEN /\ df' = [r \in 1..Len(df) |->
                        [df[r] EXCEPT ![date_col] = CoerceCell(@)]]
            /\ is_datetime' = TRUE
       ELSE /\ df' = df
            /\ is_datetime' = FALSE
    /\ pc' = "types"
    /\ UNCHANGED <<columns, date_col, type_col, value_col, unique_types, tf, calls,
                   start_date, end_date, filtered, types, xrange, grid, panels,
                   singles, saved, name, safe>>

\* lines 190-192: df[None] raises KeyError
UniqueTypes ==
    /\ pc = "types"
    /\ IF type_col = None
       THEN /\ pc' = "crashed"
            /\ unique_types' = unique_types
       ELSE /\ pc' = "absolute"
            /\ unique_types' = Unique(Column(type_col))
    /\ UNCHANGED <<columns, date_col, type_col, value_col, df, is_datetime, tf,
                   calls, start_date, end_date, filtered, types, xrange, grid,
                   panels, singles, saved, name, safe>>

\* lines 194-197
AbsoluteTimeframe ==
    /\ pc = "absolute"
    /\ CreateTimeframeGraphs("absolute", NoBound, NoBound, "oneyear")
    /\ UNCHANGED <<columns, date_col, type_col, value_col, df, is_datetime,
                   unique_types>>

\* lines 199-208
OneYearTimeframe ==
    /\ pc = "oneyear"
    /\ IF is_datetime
       THEN CreateTimeframeGraphs("1year", OneYearAgo(MaxDate(RowIndices)),
                                  NoBound, "done")
       ELSE /\ pc' = "done"
            /\ UNCHANGED <<tf, calls, start_date, end_date, filtered, types,
                           xrange, grid, panels, singles, saved, name, safe>>
    /\ UNCHANGED <<columns, date_col, type_col, value_col, df, is_datetime,
                   unique_types>>

Next ==
    \/ InferColumns
    \/ CoerceTime
    \/ UniqueTypes
    \/ AbsoluteTimeframe
    \/ OneYearTimeframe

Spec == Init /\ [][Next]_vars

-----------------------------------------------------------------------------
(* Column inference over every list of column names *)

InitColumns ==
    /\ pc = "infer"
    /\ columns \in ColumnLists
    /\ df = << >>
    /\ name = None
    /\ InitCommon

NextColumns == InferColumns

SpecColumns == InitColumns /\ [][NextColumns]_vars

-----------------------------------------------------------------------------
(* Sanitization over every category name *)

InitSanitize ==
    /\ pc = "sanitize"
    /\ columns = StdColumns
    /\ df = << >>
    /\ name \in Names
    /\ InitCommon

\* line 126 on its own
Sanitize ==
    /\ pc = "sanitize"
    /\ safe' = SafeFilename(name)
    /\ pc' = "sanitized"
    /\ UNCHANGED <<columns, date_col, type_col, value_col, df, is_datetime,
                   unique_types, tf, calls, start_date, end_date, filtered, types,
                   xrange, grid, panels, singles, saved, name>>

NextSanitize == Sanitize

SpecSanitize == InitSanitize /\ [][NextSanitize]_vars

-----------------------------------------------------------------------------
(* What the claims speak of, stated from the table alone *)

\* the rows with a valid time, and the latest of their times
ValidRows == {r \in 1..Len(df) : ~IsMissing(At(r, date_col))}

LatestAmong(valid) ==
    {r \in valid : \A q \in valid : Key(At(q, date_col)) =< Key(At(r, date_col))}

LatestRows == LatestAmong(ValidRows)

WindowAmong(valid, latest) ==
    {r \in valid : \E m \in latest : At(r, date_col).n >= At(m, date_col).n - YearDays}

\* the rows within a timeframe's bounds
WindowRows(t) ==
    IF t = "absolute" THEN 1..Len(df) ELSE WindowAmong(ValidRows, LatestRows)

CatsOf(rs) == {At(r, type_col) : r \in rs} \ {NaN}

\* the categories with at least one row within a timeframe's bounds
CatsWithData(t) == CatsOf(WindowRows(t))

FirstRow(c) == CHOOSE r \in 1..Len(df) :
                  /\ At(r, type_col) = c
                  /\ \A q \in 1..(r - 1) : At(q, type_col) # c

FilesOf(t) == {saved[k].file : k \in {j \in 1..Len(saved) : saved[j].tf = t}}

StandaloneFiles(t) == {singles[t][k].file : k \in 1..Len(singles[t])}

RenderedCats(t) == {singles[t][k].cat : k \in 1..Len(singles[t])}

\* the last call (timeframe tf) has returned / has returned after rendering
Returned == pc \in {"oneyear", "done"}

Rendered == Returned /\ types # << >>

-----------------------------------------------------------------------------
(* C2: column inference *)

\* the positions of the columns whose lower-cased name contains a keyword
Matches(keywords) ==
    {k \in 1..Len(columns) : \E kw \in keywords : Contains(Lower(columns[k]), kw)}

\* the first such column, else the positional default
FirstOrElse(keywords, default) ==
    IF Matches(keywords) = {} THEN default
    ELSE columns[CHOOSE k \in Matches(keywords) : \A j \in Matches(keywords) : k =< j]

LastColumn == columns[Len(columns)]

RolesAsSpecified ==
    /\ date_col = FirstOrElse(DateKeywords, columns[1])
    /\ type_col = FirstOrElse(TypeKeywords,
                              IF Len(columns) >= 3 THEN columns[2] ELSE LastColumn)
    /\ value_col = FirstOrElse(ValueKeywords, LastColumn)
    /\ {date_col, type_col, value_col} \subseteq Range(columns)

RolesOfExamples ==
    /\ columns = <<cDate, cCategory, cValue>>
         => <<date_col, type_col, value_col>> = <<cDate, cCategory, cValue>>
    /\ columns = <<cA, cB, cC>>
         => <<date_col, type_col, value_col>> = <<cA, cB, cC>>
    /\ columns = <<cA, cTime>> => date_col = cTime
    /\ columns = <<cA, cB, cKind>> => type_col = cKind
    /\ columns = <<cA, cDatatype>> => (type_col = cDatatype /\ value_col = cDatatype)

\* C2 as stated: for every non-empty list of column names the three roles are
\* the first keyword match, else the positional default (first; second if there
\* are at least 3 columns, else last; last), and each is a column of the table.
C2_Original ==
    (pc = "coerce" /\ Len(columns) >= 1) => RolesAsSpecified

\* C2 amended: the same for every list of at least two column names; for a
\* single-column list the time column is that column, and a role without a
\* keyword match is left unset (None), so it is no column of the table.
C2_ColumnInference ==
    pc = "coerce" =>
        /\ Len(columns) >= 2 => RolesAsSpecified
        /\ RolesOfExamples
        /\ Len(columns) = 1 =>
              /\ date_col = columns[1]
              /\ type_col = (IF Matches(TypeKeywords) = {} THEN None ELSE columns[1])
              /\ value_col = (IF Matches(ValueKeywords) = {} THEN None ELSE columns[1])

\* inference has run on three unnamed columns and on no keyword fell back to
\* the second column for the category
C2_Witness ==
    /\ pc = "coerce"
    /\ columns = <<cA, cB, cC>>
    /\ type_col = cB
    /\ value_col = cC

-----------------------------------------------------------------------------
(* C6: category sanitization *)

Unsafe == {" ", "/", "\\"}

\* C6: the filename stem has the name's length, holds "_" wherever the name
\* holds a space, "/" or "\" and the name's own character everywhere else,
\* holds none of the three, and sanitizing it again changes nothing.
C6_Sanitization ==
    pc = "sanitized" =>
        /\ Len(safe) = Len(name)
        /\ \A k \in 1..Len(name) :
              safe[k] = (IF name[k] \in Unsafe THEN "_" ELSE name[k])
        /\ \A k \in 1..Len(safe) : safe[k] \notin Unsafe
        /\ SafeFilename(safe) = safe

\* a name holding all three characters has been sanitized
C6_Witness ==
    /\ pc = "sanitized"
    /\ name = <<"/", " ", "\\">>
    /\ safe = <<"_", "_", "_">>

-----------------------------------------------------------------------------
(* C1: standalone files and categories with data *)

FileOfCategory(c, t) == IndividualFile(SafeFilename(c), t)

TableCategories == {At(r, type_col) : r \in 1..Len(df)} \ {NaN}

OnePerCategory(files, cats, others, t) ==
    /\ Cardinality(files) = Cardinality(cats)
    /\ \A c \in cats : FileOfCategory(c, t) \in files
    /\ \A c, d \in cats : c # d => FileOfCategory(c, t) # FileOfCategory(d, t)
    /\ \A c \in others \ cats : FileOfCategory(c, t) \notin files

\* C1 as stated: in a rendered timeframe of a table with at least one row the
\* standalone files are one per category with a row in the window: as many
\* files as such categories, each category with a file of its own, and no
\* file for a category without a row in the window.
C1_Original ==
    (Rendered /\ Len(df) >= 1) =>
        OnePerCategory(StandaloneFiles(tf), CatsWithData(tf), TableCategories, tf)

-----------------------------------------------------------------------------
(* C3: the composite's grid *)

GridFor(ps, g, cats, n) ==
    /\ Len(ps) = n
    /\ \A k \in 1..n : ps[k].cell = k - 1
    /\ {ps[k].cat : k \in 1..n} = cats
    /\ g.cols = (IF n > 1 THEN 2 ELSE 1)
    /\ g.rows * g.cols >= n
    /\ (g.rows - 1) * g.cols < n
    /\ g.naxes = g.rows * g.cols
    /\ g.hidden = {c \in 0..(g.naxes - 1) : c >= n}
    /\ Cardinality(g.hidden) =< 1

\* C3: a rendered timeframe's composite has one panel per category with data,
\* panel k on cell k; columns = 2 for more than one category, else 1; rows =
\* ceil(categories / columns); exactly the cells past the categories are
\* hidden, and that is at most one cell.
C3_Grid ==
    Rendered =>
        GridFor(panels[tf], grid, CatsWithData(tf), Cardinality(CatsWithData(tf)))

\* a composite of three categories: a 2 x 2 grid whose last cell is hidden
C3_Witness ==
    /\ Rendered
    /\ Cardinality(CatsWithData(tf)) = 3
    /\ grid.rows = 2
    /\ grid.cols = 2
    /\ grid.hidden = {3}

-----------------------------------------------------------------------------
(* C4: the trailing window *)

\* the window of a table whose latest valid time is the day `latest`
WindowFrom(valid, latest) ==
    LET bound == latest - YearDays
    IN  /\ start_date = Ts(bound)
        /\ Range(filtered) = {r \in valid : At(r, date_col).n >= bound}
        /\ latest = ParseDate(20240601) =>
              /\ start_date = Ts(ParseDate(20230602))
              /\ \A r \in 1..Len(df) :
                    /\ At(r, date_col) = Ts(ParseDate(20230602))
                          => r \in Range(filtered)
                    /\ At(r, date_col) = Ts(ParseDate(20230601))
                          => r \notin Range(filtered)

LatestDay(valid) == At(CHOOSE r \in LatestAmong(valid) : TRUE, date_col).n

\* C4: with a timestamp column, the one-year call has no upper bound, its
\* lower bound is the table's latest time minus 365 days, and its rows are
\* exactly those of time >= that bound; with the latest time 2024-06-01 the
\* bound is 2023-06-02, a row of 2023-06-02 is kept and one of 2023-06-01 not.
C4_TrailingWindow ==
    (pc = "done" /\ tf = "1year") =>
        /\ is_datetime
        /\ end_date = NoBound
        /\ ValidRows = {} => (start_date = NaT /\ filtered = << >>)
        /\ ValidRows # {} => WindowFrom(ValidRows, LatestDay(ValidRows))

\* the window of a table whose latest time is 2024-06-01 kept a row of
\* 2023-06-02 and dropped a row of 2023-06-01
C4_Witness ==
    /\ pc = "done"
    /\ tf = "1year"
    /\ start_date = Ts(ParseDate(20230602))
    /\ \E r \in Range(filtered) : At(r, date_col) = Ts(ParseDate(20230602))
    /\ \E r \in 1..Len(df) :
          r \notin Range(filtered) /\ At(r, date_col) = Ts(ParseDate(20230601))

-----------------------------------------------------------------------------
(* C5: the shared x-axis bounds *)

Figures(t) ==
    {panels[t][k].xlim : k \in 1..Len(panels[t])}
        \cup {singles[t][k].xlim : k \in 1..Len(singles[t])}

\* <<lo, hi>> is [min time, max time] over the cells (NaT when there is none)
IsRangeOver(lim, cells) ==
    IF cells = {} THEN lim = <<NaT, NaT>>
    ELSE /\ lim[1] \in cells
         /\ lim[2] \in cells
         /\ \A c \in cells : Key(lim[1]) =< Key(c) /\ Key(c) =< Key(lim[2])

TimesOf(rs) == {At(r, date_col) : r \in rs} \ {NaCell, NaT}

SameRange(figs, cells) ==
    /\ Cardinality(figs) = 1
    /\ \A lim \in figs : IsRangeOver(lim, cells)

PlottedAmong(rs, cats) == {r \in rs : At(r, type_col) \in cats}

\* the rows of the window that belong to a plotted category
PlottedRows(t) == PlottedAmong(WindowRows(t), CatsWithData(t))

\* C5 as stated: every panel and standalone figure of a rendered timeframe has
\* the same x-axis bounds, [min time, max time] over the rows that fall in the
\* window and belong to a plotted category.
C5_Original ==
    Rendered => SameRange(Figures(tf), TimesOf(PlottedRows(tf)))

\* C5 amended: the same bounds on every panel and standalone figure, equal to
\* [min time, max time] over all rows that fall in the window, those of a
\* missing (unplotted) category included.
C5_SharedRange ==
    Rendered => SameRange(Figures(tf), TimesOf(WindowRows(tf)))

\* a one-year timeframe of two categories was rendered on a range narrower
\* than the table's
C5_Witness ==
    /\ Rendered
    /\ tf = "1year"
    /\ Len(panels[tf]) >= 2
    /\ Len(singles[tf]) >= 2
    /\ ValidRows \ WindowRows(tf) # {}
    /\ xrange[1] # xrange[2]

-----------------------------------------------------------------------------
(* C7: degraded mode *)

\* the time column as read from the file holds a text pd.to_datetime rejects
Uncoercible == \E r \in 1..Len(df) : At(r, date_col).k = "text"

\* C7 as stated: when the time column cannot be coerced the run does not fail,
\* "all time" is rendered over the original values and the one-year timeframe
\* is skipped, no 1year file written; when it can, both timeframes are
\* attempted, "all time" first.
C7_Original ==
    /\ (pc \notin {"infer", "coerce"} /\ Uncoercible) =>
          /\ ~is_datetime
          /\ pc # "crashed"
          /\ FilesOf("1year") = {}
          /\ pc = "done" =>
                /\ calls = <<"absolute">>
                /\ CatsWithData("absolute") # {} =>
                      /\ RenderedCats("absolute") = CatsWithData("absolute")
                      /\ \A k \in 1..Len(singles["absolute"]) :
                            \A j \in 1..Len(singles["absolute"][k].data) :
                                singles["absolute"][k].data[j][1].k \in {"date", "text", "na"}
    /\ (pc \notin {"infer", "coerce"} /\ ~Uncoercible) =>
          /\ is_datetime
          /\ pc = "done" => calls = <<"absolute", "1year">>

-----------------------------------------------------------------------------
(* C8: empty timeframes *)

DrawsExactly(cats, t) ==
    /\ Range(types) = cats
    /\ {panels[t][k].cat : k \in 1..Len(panels[t])} = cats
    /\ RenderedCats(t) = cats
    /\ cats = {} => FilesOf(t) = {}
    /\ cats # {} => CombinedFile(t) \in FilesOf(t)

-----------------------------------------------------------------------------
(* C9: order of the panels and of the plotted rows *)

\* ascending times, the missing ones last
Ascending(data) ==
    \A a, b \in 1..Len(data) : a < b => InOrder(data[a][1], data[b][1])

\* data plots each of the rows rs once
PlotsRows(data, rs) ==
    /\ Len(data) = Cardinality(rs)
    /\ \A cell \in {At(r, date_col) : r \in rs} :
          Cardinality({k \in 1..Len(data) : data[k][1] = cell})
             = Cardinality({r \in rs : At(r, date_col) = cell})

RowsOfCategory(window, c) == {r \in window : At(r, type_col) = c}

OrderedFigures(figs, window, cats) ==
    /\ \A a, b \in 1..Len(figs) :
          a < b => FirstRow(figs[a].cat) < FirstRow(figs[b].cat)
    /\ \A k \in 1..Len(figs) :
          /\ figs[k].cat \in cats
          /\ Ascending(figs[k].data)
          /\ PlotsRows(figs[k].data, RowsOfCategory(window, figs[k].cat))
    /\ Len(figs) = Cardinality(cats)

\* C9: the panels and the standalone figures of a rendered timeframe come in
\* the order of their categories' first rows in the whole table, panel i
\* (cell i of the grid) shows the i-th of them, and each plots its category's
\* rows of the window in ascending order of time.
C9_Ordering ==
    Rendered =>
        /\ OrderedFigures(panels[tf], WindowRows(tf), CatsWithData(tf))
        /\ OrderedFigures(singles[tf], WindowRows(tf), CatsWithData(tf))
        /\ \A k \in 1..Len(panels[tf]) :
              /\ panels[tf][k].cell = k - 1
              /\ panels[tf][k].cat = singles[tf][k].cat

\* two panels, and a category whose later row of the table has the earlier
\* time, so that the sort reordered its rows
C9_Witness ==
    /\ Rendered
    /\ Len(panels[tf]) >= 2
    /\ \E r, q \in WindowRows(tf) :
          /\ r < q
          /\ At(r, type_col) = At(q, type_col)
          /\ At(r, type_col) # NaN
          /\ ~IsMissing(At(r, date_col))
          /\ ~IsMissing(At(q, date_col))
          /\ Key(At(q, date_col)) < Key(At(r, date_col))

-----------------------------------------------------------------------------
(* C10: the two timeframes of one run *)

TimeframesAgree(year, all, yfiles, afiles) ==
    /\ year \subseteq all
    /\ yfiles \cap afiles = {}
    /\ year # {} => (Cardinality(yfiles) >= 2 /\ Cardinality(afiles) >= 2)

\* C10 as stated: with a timestamp column and at least one row with a valid
\* time and category, the one-year timeframe is never empty, its categories
\* are among those of "all time", and the two timeframes' files have
\* different names.
C10_Original ==
    (pc = "done" /\ is_datetime
        /\ \E r \in ValidRows : At(r, type_col) # NaN) =>
        /\ RenderedCats("1year") # {}
        /\ TimeframesAgree(RenderedCats("1year"), RenderedCats("absolute"),
                           FilesOf("1year"), FilesOf("absolute"))

\* C10 amended: with a timestamp column, whenever a row holding the maximum
\* time has a valid category, that category is rendered for the one-year
\* timeframe (which is then not empty); in every run the one-year categories
\* are among those of "all time" and the two timeframes' files have
\* different names.
C10_Timeframes ==
    (pc = "done" /\ is_datetime) =>
        /\ CatsOf(LatestRows) \subseteq RenderedCats("1year")
        /\ TimeframesAgree(RenderedCats("1year"), RenderedCats("absolute"),
                           FilesOf("1year"), FilesOf("absolute"))

\* both timeframes rendered, the one-year one with fewer categories
C10_Witness ==
    /\ pc = "done"
    /\ is_datetime
    /\ RenderedCats("1year") # {}
    /\ RenderedCats("1year") # RenderedCats("absolute")
    /\ \E r \in LatestRows : At(r, type_col) # NaN

=============================================================================
